---- MODULE Spec2Model ----
(***************************************************************************)
(* Model of George::GaussianProcess<KernelType> (src/george/george.h).     *)
(*                                                                         *)
(* Program state: kernel_, info_, computed_, x_, L_.  One action per       *)
(* public method: compute, lnlikelihood, gradlnlikelihood.                 *)
(*                                                                         *)
(* Numbers.  Training inputs are 1-D points taken from Points; two         *)
(* distinct points are at least 40 apart, so with scale pars_[1] = 1 the   *)
(* double value exp(-0.5 * chi2) is exactly 1.0 (chi2 = 0) or exactly 0.0  *)
(* (chi2 >= 1600, underflow).  Amplitudes and noise levels are small       *)
(* integers, so every covariance entry is an integer that a double holds   *)
(* exactly.  The Eigen LDLT factorization is an external collaborator: it  *)
(* is modelled by its outcome (Success / NumericalIssue) as a function of  *)
(* the matrix; solved vectors and logarithms are kept symbolic.            *)
(*                                                                         *)
(* Observation variables (not program state): op records the last call,    *)
(* its arguments, its return value and the path it took; lastCompute       *)
(* records the most recent compute call and the state it left;             *)
(* everSucceeded records whether some compute call has returned 0.         *)
(***************************************************************************)
EXTENDS Integers, Sequences, FiniteSets

VARIABLES kernel_, info_, computed_, x_, L_, op, lastCompute, everSucceeded

vars == <<kernel_, info_, computed_, x_, L_, op, lastCompute, everSucceeded>>

\* largest number of training samples / target entries
MaxN == 2

\* 1-D input points; distinct points are "far" apart (see header)
Points == {0, 40}
\* per-sample noise standard deviations
Noises == {0, 1}
\* target values
YVals == {1}

\* kernels a GaussianProcess can be constructed with
Kernels == { [type |-> "Kernel", pars |-> <<>>],
             [type |-> "IsotropicGaussianKernel", pars |-> <<1, 1>>],
             [type |-> "IsotropicGaussianKernel", pars |-> <<-1, 1>>] }

Vectors(S) == UNION { [1..n -> S] : n \in 0..MaxN }

\* (X, yerr) pairs with as many noise entries as rows
TrainingSets == UNION { [1..n -> Points] \X [1..n -> Noises] : n \in 0..MaxN }

-----------------------------------------------------------------------------
(* Kernel *)

npars(k) == Len(k.pars)

\* exp(-0.5 * chi2) on the model's domain: chi2 = 0 or chi2 >= 1600
ExpNegHalf(chi2) == IF chi2 = 0 THEN 1 ELSE 0

evaluate(k, x1, x2) ==
    IF k.type = "Kernel" THEN 0
    ELSE LET d == x1 - x2
             chi2 == (d * d) \div k.pars[2]
         IN  k.pars[1] * ExpNegHalf(chi2)

gradient(k, x1, x2) ==
    IF k.type = "Kernel" THEN [i \in 1..Len(k.pars) |-> 0]
    ELSE LET d == x1 - x2
             chi2 == (d * d) \div k.pars[2]
             value == ExpNegHalf(chi2)
         \* grad(1) = -e / pars_[1] * pars_[0] * value with e = -0.5 * chi2;
         \* chi2 * value = 0 on the domain, so the product is exactly 0
         IN  <<value, (chi2 * k.pars[1] * value) \div (2 * k.pars[2])>>

-----------------------------------------------------------------------------
(* Covariance loop of compute *)

Cells(n) == (1..n) \X (1..n)

\* MatrixXd Kxx(nsamples, nsamples): storage allocated, no cell written
NewMatrix(n) == [K |-> [c \in Cells(n) |-> 0], written |-> {}, evals |-> <<>>]

\* mutant: the value is not mirrored into the lower triangle
RECURSIVE InnerLoop_NoMirror(_, _, _, _, _)
InnerLoop_NoMirror(k, x, i, j, acc) ==
    IF j > Len(x) THEN acc
    ELSE LET value == evaluate(k, x[i], x[j])
         IN  InnerLoop_NoMirror(k, x, i, j + 1,
                [K |-> [acc.K EXCEPT ![<<i, j>>] = value],
                 written |-> acc.written \cup {<<i, j>>},
                 evals |-> Append(acc.evals, <<i, j>>)])

RECURSIVE InnerLoop(_, _, _, _, _)
InnerLoop(k, x, i, j, acc) ==
    IF j > Len(x) THEN acc
    ELSE LET value == evaluate(k, x[i], x[j])
         IN  InnerLoop(k, x, i, j + 1,
                [K |-> [acc.K EXCEPT ![<<i, j>>] = value, ![<<j, i>>] = value],
                 written |-> acc.written \cup {<<i, j>>, <<j, i>>},
                 evals |-> Append(acc.evals, <<i, j>>)])

RECURSIVE OuterLoop(_, _, _, _, _)
OuterLoop(k, x, yerr, i, acc) ==
    IF i > Len(x) THEN acc
    ELSE LET inner == InnerLoop(k, x, i, i + 1, acc)
             diag == evaluate(k, x[i], x[i]) + yerr[i] * yerr[i]
         IN  OuterLoop(k, x, yerr, i + 1,
                [K |-> [inner.K EXCEPT ![<<i, i>>] = diag],
                 written |-> inner.written \cup {<<i, i>>},
                 evals |-> Append(inner.evals, <<i, i>>)])

Kxx(k, x, yerr) == OuterLoop(k, x, yerr, 1, NewMatrix(Len(x)))

-----------------------------------------------------------------------------
(* Eigen::LDLT<MatrixXd>: outcome of the pivoted factorization *)

AbsVal(a) == IF a < 0 THEN -a ELSE a

\* first position in k..n whose diagonal entry has the largest magnitude
BiggestInCorner(M, perm, k, n) ==
    CHOOSE i \in k..n :
        /\ \A j \in k..n : AbsVal(M[<<perm[j], perm[j]>>]) <= AbsVal(M[<<perm[i], perm[i]>>])
        /\ \A j \in k..(i - 1) : AbsVal(M[<<perm[j], perm[j]>>]) < AbsVal(M[<<perm[i], perm[i]>>])

RECURSIVE Transpositions(_, _, _, _)
Transpositions(M, perm, k, n) ==
    IF k > n THEN perm
    ELSE LET b == BiggestInCorner(M, perm, k, n)
         IN  Transpositions(M, [perm EXCEPT ![k] = perm[b], ![b] = perm[k]], k + 1, n)

RemoveAt(s, c) == [i \in 1..(Len(s) - 1) |-> IF i < c THEN s[i] ELSE s[i + 1]]

RECURSIVE Det(_, _, _)
RECURSIVE DetExpand(_, _, _, _)
\* determinant of the submatrix with the given row and column indices
Det(M, rows, cols) ==
    IF Len(rows) = 0 THEN 1 ELSE DetExpand(M, rows, cols, 1)
DetExpand(M, rows, cols, c) ==
    IF c > Len(cols) THEN 0
    ELSE (IF c % 2 = 1 THEN 1 ELSE -1)
           * M[<<rows[1], cols[c]>>] * Det(M, Tail(rows), RemoveAt(cols, c))
         + DetExpand(M, rows, cols, c + 1)

\* The factorization reports NumericalIssue when a zero pivot is met while
\* the rest of the (permuted) matrix is not yet reduced to zero.
LDLTInfo(M, n) ==
    IF n <= 1 THEN "Success"
    ELSE LET perm == Transpositions(M, [i \in 1..n |-> i], 1, n)
             lead(k) == SubSeq(perm, 1, k)
             zeros == {k \in 1..n : Det(M, lead(k), lead(k)) = 0}
         IN  IF zeros = {} THEN "Success"
             ELSE LET k == (CHOOSE z \in zeros : \A w \in zeros : z <= w) - 1
                  IN  IF \A i, j \in (k + 1)..n :
                             Det(M, Append(lead(k), perm[i]), Append(lead(k), perm[j])) = 0
                      THEN "Success" ELSE "NumericalIssue"

LDLT(M, n) == [initialized |-> TRUE, n |-> n, matrix |-> M, info |-> LDLTInfo(M, n)]

\* default-constructed LDLT<MatrixXd> member
LDLT0 == [initialized |-> FALSE, n |-> 0, matrix |-> [c \in {} |-> 0], info |-> "Success"]

-----------------------------------------------------------------------------
(* GaussianProcess methods as functions of the state they read *)

\* mutant: the status test is dropped, every call reports success
computeBody_NoInfoCheck(k, computed, L0, x, yerr) ==
    LET cov == Kxx(k, x, yerr)
        L == LDLT(cov.K, Len(x))
    IN  [x_ |-> x, L_ |-> L, computed_ |-> TRUE, ret |-> 0, cov |-> cov]

\* mutant: the status test is made before L_ is reassigned
computeBody_StaleInfo(k, computed, L0, x, yerr) ==
    LET cov == Kxx(k, x, yerr)
        L == LDLT(cov.K, Len(x))
    IN  IF L0.info # "Success"
        THEN [x_ |-> x, L_ |-> L, computed_ |-> computed, ret |-> -1, cov |-> cov]
        ELSE [x_ |-> x, L_ |-> L, computed_ |-> TRUE, ret |-> 0, cov |-> cov]

\* k, computed, L0: the members kernel_, computed_, L_ when compute is entered
computeBody(k, computed, L0, x, yerr) ==
    LET cov == Kxx(k, x, yerr)
        L == LDLT(cov.K, Len(x))
    IN  IF L.info # "Success"
        THEN [x_ |-> x, L_ |-> L, computed_ |-> computed, ret |-> -1, cov |-> cov]
        ELSE [x_ |-> x, L_ |-> L, computed_ |-> TRUE, ret |-> 0, cov |-> cov]

NegInf == [kind |-> "neginf"]

\* mutant: the two preconditions are joined by "and"
lnlikelihoodBody_AndGuard(computed, x, L, y) ==
    IF ~computed /\ Len(y) # Len(x)
    THEN [ret |-> NegInf, path |-> "guard"]
    ELSE IF L.info # "Success"
    THEN [ret |-> NegInf, path |-> "solvefail"]
    ELSE [ret |-> [kind |-> "value", matrix |-> L.matrix, y |-> y], path |-> "ok"]

\* mutant: the status of the factorization is not tested after the solve
lnlikelihoodBody_NoSolveCheck(computed, x, L, y) ==
    IF ~computed \/ Len(y) # Len(x)
    THEN [ret |-> NegInf, path |-> "guard"]
    ELSE [ret |-> [kind |-> "value", matrix |-> L.matrix, y |-> y], path |-> "ok"]

lnlikelihoodBody(computed, x, L, y) ==
    IF ~computed \/ Len(y) # Len(x)
    THEN [ret |-> NegInf, path |-> "guard"]
    ELSE IF L.info # "Success"
    THEN [ret |-> NegInf, path |-> "solvefail"]
    ELSE [ret |-> [kind |-> "value", matrix |-> L.matrix, y |-> y], path |-> "ok"]

\* derivative matrices dkdt[k], one per kernel parameter
dkdtBuild(k, x, n) ==
    [p \in 1..npars(k) |->
        [c \in Cells(n) |->
            IF c[1] <= c[2] THEN gradient(k, x[c[1]], x[c[2]])[p]
                            ELSE gradient(k, x[c[2]], x[c[1]])[p]]]

\* mutant: a failed solve is reported with the status of the guard
gradlnlikelihoodBody_SameCode(k, info, computed, x, L, y) ==
    IF ~computed \/ Len(y) # Len(x)
    THEN [info_ |-> -1, path |-> "guard", built |-> FALSE,
          ret |-> [kind |-> "unset", len |-> npars(k)]]
    ELSE IF L.info # "Success"
    THEN [info_ |-> -1, path |-> "solvefail", built |-> FALSE,
          ret |-> [kind |-> "unset", len |-> npars(k)]]
    ELSE [info_ |-> info, path |-> "ok", built |-> TRUE,
          ret |-> [kind |-> "grad", len |-> npars(k), matrix |-> L.matrix,
                   y |-> y, dkdt |-> dkdtBuild(k, x, Len(y))]]

gradlnlikelihoodBody(k, info, computed, x, L, y) ==
    IF ~computed \/ Len(y) # Len(x)
    THEN [info_ |-> -1, path |-> "guard", built |-> FALSE,
          ret |-> [kind |-> "unset", len |-> npars(k)]]
    ELSE IF L.info # "Success"
    THEN [info_ |-> -2, path |-> "solvefail", built |-> FALSE,
          ret |-> [kind |-> "unset", len |-> npars(k)]]
    ELSE [info_ |-> info, path |-> "ok", built |-> TRUE,
          ret |-> [kind |-> "grad", len |-> npars(k), matrix |-> L.matrix,
                   y |-> y, dkdt |-> dkdtBuild(k, x, Len(y))]]

-----------------------------------------------------------------------------
(* State machine *)

NoCompute == [called |-> FALSE]

Init ==
    /\ kernel_ \in Kernels
    /\ info_ = 0
    /\ computed_ = FALSE
    /\ x_ = <<>>
    /\ L_ = LDLT0
    /\ op = [name |-> "construct"]
    /\ lastCompute = NoCompute
    /\ everSucceeded = FALSE

compute(x, yerr) ==
    \E r \in {computeBody(kernel_, computed_, L_, x, yerr)} :
        /\ x_' = r.x_
        /\ L_' = r.L_
        /\ computed_' = r.computed_
        /\ UNCHANGED <<kernel_, info_>>
        /\ op' = [name |-> "compute", x |-> x, yerr |-> yerr, ret |-> r.ret,
                  cov |-> r.cov]
        /\ lastCompute' = [called |-> TRUE, x |-> x, yerr |-> yerr, ret |-> r.ret,
                           computed |-> r.computed_, x_ |-> r.x_, L_ |-> r.L_,
                           repeated |->
                               IF /\ lastCompute.called
                                  /\ lastCompute.x = x
                                  /\ lastCompute.yerr = yerr
                               THEN (IF op.name = "compute" THEN "direct"
                                                            ELSE "after_calls")
                               ELSE "no"]
        /\ everSucceeded' = (everSucceeded \/ r.ret = 0)

lnlikelihood(y) ==
    \E r \in {lnlikelihoodBody(computed_, x_, L_, y)} :
        /\ op' = [name |-> "lnlikelihood", y |-> y, ret |-> r.ret, path |-> r.path]
        /\ UNCHANGED <<kernel_, info_, computed_, x_, L_, lastCompute, everSucceeded>>

gradlnlikelihood(y) ==
    \E r \in {gradlnlikelihoodBody(kernel_, info_, computed_, x_, L_, y)} :
        /\ info_' = r.info_
        /\ op' = [name |-> "gradlnlikelihood", y |-> y, ret |-> r.ret,
                  path |-> r.path, built |-> r.built]
        /\ UNCHANGED <<kernel_, computed_, x_, L_, lastCompute, everSucceeded>>

Compute == \E t \in TrainingSets : compute(t[1], t[2])
LnLikelihood == \E y \in Vectors(YVals) : lnlikelihood(y)
GradLnLikelihood == \E y \in Vectors(YVals) : gradlnlikelihood(y)

Next == Compute \/ LnLikelihood \/ GradLnLikelihood

Spec == Init /\ [][Next]_vars

-----------------------------------------------------------------------------
(* Properties *)

FailedLast == lastCompute.called /\ lastCompute.ret = -1

\* C1: if the most recent compute call returned -1 then computed() is false,
\* also when an earlier compute call had succeeded.
C1_FailedComputeLeavesUncomputed == FailedLast => ~computed_

\* C2: computed() = true implies that the stored factorization is a
\* successful factorization of the covariance matrix built from the stored
\* training inputs.
C2_ComputedMeansValidFactorization ==
    computed_ =>
        /\ lastCompute.called
        /\ L_.initialized
        /\ L_.info = "Success"
        /\ L_.matrix = Kxx(kernel_, x_, lastCompute.yerr).K

\* C3: compute returns 0 exactly when the factorization of the built
\* covariance matrix reports success, and then computed() is true and the
\* stored inputs are X; it returns -1 exactly when the factorization reports
\* failure; there is no other return value.
C3_ComputeStatus ==
    op.name = "compute" =>
        /\ op.ret \in {0, -1}
        /\ L_.initialized /\ L_.matrix = op.cov.K
        /\ (op.ret = 0) <=> (L_.info = "Success")
        /\ (op.ret = -1) <=> (L_.info # "Success")
        /\ (op.ret = 0) => (computed_ /\ x_ = op.x)

C3_Witness ==
    /\ op.name = "compute" /\ op.ret = 0 /\ Len(op.x) = MaxN
    /\ \E c \in Cells(MaxN) : c[1] # c[2] /\ op.cov.K[c] # 0

\* C4: immediately after a compute call that returned status s, info() = s.
C4_InfoIsComputeStatus == op.name = "compute" => info_ = op.ret

\* C5: lnlikelihood(y) returns the negative-infinity sentinel at the guard,
\* leaving the factorization alone, whenever no compute call has succeeded
\* or len(y) differs from the row count of the stored inputs; the solve is
\* reached only when the instance is computed and the lengths match.
C5_LnLikelihoodGuard ==
    [][op'.name = "lnlikelihood" =>
        /\ L_' = L_
        /\ (~everSucceeded \/ Len(op'.y) # Len(x_)) =>
               (op'.ret = NegInf /\ op'.path = "guard")
        /\ (op'.path # "guard") => (computed_ /\ Len(op'.y) = Len(x_))]_vars

C5_Witness ==
    /\ op.name = "lnlikelihood" /\ op.path = "guard" /\ op.ret = NegInf
    /\ everSucceeded /\ Len(op.y) # Len(x_) /\ Len(x_) > 0

\* C6: gradlnlikelihood(y) sets the status to -1 when the instance is not
\* computed or the lengths differ, to -2 when the solve reports failure, in
\* both cases before any derivative matrix is built; on the success path it
\* does not set the status.
C6_GradStatusCodes ==
    [][op'.name = "gradlnlikelihood" =>
        LET guard == ~computed_ \/ Len(op'.y) # Len(x_)
            solvefail == ~guard /\ L_.info # "Success"
        IN  /\ guard => (info_' = -1 /\ ~op'.built /\ op'.ret.kind = "unset")
            /\ solvefail => (info_' = -2 /\ ~op'.built /\ op'.ret.kind = "unset")
            /\ (~guard /\ ~solvefail) => (info_' = info_ /\ op'.built)]_vars

C6_Witness ==
    /\ op.name = "gradlnlikelihood" /\ op.path = "solvefail" /\ info_ = -2
    /\ Len(op.y) = Len(x_)

\* C7: immediately after a gradlnlikelihood call, info() is negative if and
\* only if that call took a failure path.
C7_InfoGatesGradient ==
    op.name = "gradlnlikelihood" => ((info_ < 0) <=> (op.path # "ok"))

\* C8: while the most recent compute call is a failed one, every
\* lnlikelihood(y) returns the sentinel and every gradlnlikelihood(y) takes a
\* failure path and sets a negative status, for every y.
C8_FailedComputeIsSignalled ==
    FailedLast =>
        /\ op.name = "lnlikelihood" => op.ret = NegInf
        /\ op.name = "gradlnlikelihood" => (op.path # "ok" /\ info_ < 0)
        /\ \A y \in Vectors(YVals) :
              /\ lnlikelihoodBody(computed_, x_, L_, y).ret = NegInf
              /\ gradlnlikelihoodBody(kernel_, info_, computed_, x_, L_, y).info_ < 0

C8_Witness ==
    /\ FailedLast /\ everSucceeded
    /\ op.name = "lnlikelihood" /\ Len(op.y) = Len(x_) /\ op.path = "solvefail"

\* C9: a compute call with the inputs of the previous compute call returns
\* the same status and leaves the same computed(), stored inputs and
\* factorization as the previous call left, so that every lnlikelihood(y)
\* has the value it had after the previous call.
C9_ComputeIdempotent ==
    [][(/\ op'.name = "compute"
        /\ lastCompute.called
        /\ op'.x = lastCompute.x
        /\ op'.yerr = lastCompute.yerr) =>
        /\ op'.ret = lastCompute.ret
        /\ computed_' = lastCompute.computed
        /\ x_' = lastCompute.x_
        /\ L_' = lastCompute.L_
        /\ \A y \in Vectors(YVals) :
              lnlikelihoodBody(computed_', x_', L_', y)
                = lnlikelihoodBody(lastCompute.computed, lastCompute.x_,
                                   lastCompute.L_, y)]_vars

C9_Witness ==
    /\ op.name = "compute" /\ lastCompute.repeated = "after_calls"
    /\ op.ret = 0 /\ Len(op.x) = MaxN /\ info_ < 0

\* C10: the covariance loop writes every cell of the n x n matrix, evaluates
\* the kernel once per pair i < j and once per i (n(n+1)/2 evaluations), and
\* yields a symmetric K with K[i][i] = evaluate(x_i, x_i) + noise_i^2.
C10_CovarianceLoop ==
    op.name = "compute" =>
        LET n == Len(op.x)
            cov == op.cov
        IN  /\ cov.written = Cells(n)
            /\ 2 * Len(cov.evals) = n * (n + 1)
            /\ \A c \in Cells(n) :
                  Cardinality({e \in 1..Len(cov.evals) : cov.evals[e] = c})
                    = (IF c[1] <= c[2] THEN 1 ELSE 0)
            /\ \A c \in Cells(n) : cov.K[c] = cov.K[<<c[2], c[1]>>]
            /\ \A i \in 1..n :
                  cov.K[<<i, i>>] = evaluate(kernel_, op.x[i], op.x[i])
                                      + op.yerr[i] * op.yerr[i]
            /\ L_.matrix = cov.K

C10_Witness ==
    /\ op.name = "compute" /\ Len(op.x) = MaxN
    /\ \E c \in Cells(MaxN) : c[1] < c[2] /\ op.cov.K[c] # 0
    /\ \E i \in 1..MaxN : op.yerr[i] # 0

====
